---- MODULE Spec2Model ----
(***************************************************************************)
(* SubCursor: a window [start, end) over a shared, mutex-guarded backing   *)
(* stream (src/src/sub_cursor.rs).                                         *)
(*                                                                         *)
(* Integers are modelled with a reduced word width: u64 / usize are        *)
(* Bits-bit unsigned words (0 .. Modulus-1), i64 is a Bits-bit signed word *)
(* (IMin .. IMax).  Arithmetic that Rust checks in builds with overflow    *)
(* checks (debug) and wraps otherwise (release) is modelled both ways: the *)
(* variable overflow_checks is the build profile.                          *)
(***************************************************************************)
EXTENDS Integers, Sequences, FiniteSets, TLC

\* ------------------------------------------------------------------ bounds
Bits == 3
NumWindows == 2
MaxEnd == 3
DataLen == 1
MaxBuf == 2
MaxByte == 1
MaxCalls == 2

Modulus == 2 ^ Bits
U == 0 .. (Modulus - 1)
IMin == 0 - (Modulus \div 2)
IMax == (Modulus \div 2) - 1
I == IMin .. IMax

Windows == 1 .. NumWindows
NoHolder == 0
Bytes == 0 .. MaxByte
Small == 0 .. MaxEnd

\* --------------------------------------------------- fixed-width arithmetic
Wrap(x) == x % Modulus
Overflows(x) == x < 0 \/ x >= Modulus

Some(x) == [some |-> TRUE, v |-> x]
None == [some |-> FALSE, v |-> 0]

\* u64::checked_rem(b).unwrap_or(a)
checked_rem_or(a, b) == IF b = 0 THEN a ELSE a % b

\* i64::checked_abs().unwrap_or(0)
checked_abs_or_0(x) == IF x = IMin THEN 0 ELSE IF x < 0 THEN 0 - x ELSE x

\* i64::wrapping_neg
wrapping_neg(x) == IF x = IMin THEN IMin ELSE 0 - x

\* u64::wrapping_add
wrapping_add(a, b) == Wrap(a + b)

\* u64::checked_sub
checked_sub(a, b) == IF a >= b THEN Some(a - b) ELSE None

\* ------------------------------------------------------------------- state
VARIABLES
    start,            \* start[w]    : usize
    end,              \* end[w]      : usize
    position,         \* position[w] : u64, absolute
    preserve,         \* preserve[w] : bool
    phys,             \* the backing stream's physical cursor
    data,             \* the backing stream's bytes
    lock,             \* holder of the backing stream's mutex, or NoHolder
    pc,               \* where each window's caller is inside read / write
    loc,              \* the locals of the call in flight on each window
    ret,              \* what the last call on each window returned
    calls,            \* how many reads and writes each window has begun
    overflow_checks,  \* build profile: TRUE = overflow panics, FALSE = wraps
    written           \* history: the last write the backing stream performed

vars == <<start, end, position, preserve, phys, data, lock, pc, loc, ret,
          calls, overflow_checks, written>>

win == <<start, end, position, preserve>>
stream == <<phys, data>>

\* the scalar fields of window w, as one value
Window(w) == [start |-> start[w], end |-> end[w], position |-> position[w],
              preserve |-> preserve[w]]

\* ------------------------------------------------------------ pure queries
\* SubCursor::len
len(s) == Wrap(s.end - s.start)
len_overflows(s) == s.end < s.start

\* SubCursor::is_empty
is_empty(s) == len(s) = 0

\* SubCursor::position (the relative position)
rel_position(s) == Wrap(s.position - s.start)
rel_position_overflows(s) == s.position < s.start

\* ------------------------------------------------- derivations (pure, &self)
\* SubCursor::new
new == [start |-> 0, end |-> 0, position |-> 0, preserve |-> FALSE]

\* From<T: Seek> / From<Vec<u8>>: the whole stream, preserve enabled
from_stream(stream_len) ==
    [start |-> 0, end |-> stream_len, position |-> 0, preserve |-> TRUE]

\* SubCursor::start
with_start(s, value) ==
    [start |-> value, end |-> s.end, position |-> value, preserve |-> s.preserve]

\* SubCursor::end
with_end(s, value) ==
    [start |-> s.start, end |-> value, position |-> s.start, preserve |-> s.preserve]

\* with_preserve resetting the position to start as the other derivations do
with_preserve_reset(s, value) ==
    [start |-> s.start, end |-> s.end, position |-> s.start, preserve |-> value]

\* SubCursor::preserve
with_preserve(s, value) ==
    [start |-> s.start, end |-> s.end, position |-> s.position, preserve |-> value]

\* SubCursor::sub_cursor
sub_cursor(s) ==
    [start |-> s.start, end |-> s.end, position |-> s.start, preserve |-> s.preserve]

\* ---------------------------------------------------------- set_position
\* set_position without the wrap into the window
set_position_unwrapped(s, pos, checks) ==
    LET r == pos
        sum == r + s.start
    IN  IF checks /\ (len_overflows(s) \/ Overflows(sum))
        THEN [kind |-> "panic", val |-> 0, position |-> s.position]
        ELSE [kind |-> "ok", val |-> 0, position |-> Wrap(sum)]

\* SubCursor::set_position: the outcome and the new absolute position
set_position(s, pos, checks) ==
    LET r == checked_rem_or(pos, len(s))
        sum == r + s.start
    IN  IF checks /\ (len_overflows(s) \/ Overflows(sum))
        THEN [kind |-> "panic", val |-> 0, position |-> s.position]
        ELSE [kind |-> "ok", val |-> 0, position |-> Wrap(sum)]

\* ------------------------------------------------------------------- seek
\* the Some(n) arm of seek: wrap past the end, store, return
seek_store(s, n, checks) ==
    LET rel == IF n > len(s) THEN checked_rem_or(n, len(s)) ELSE n
        sum == rel + s.start
    IN  IF checks /\ Overflows(sum)
        THEN [kind |-> "panic", val |-> 0, position |-> s.position]
        ELSE [kind |-> "ok", val |-> rel, position |-> Wrap(sum)]

\* new_pos of seek: base_pos plus the signed offset
seek_new_pos(base_pos, offset) ==
    IF offset >= 0
    THEN Some(wrapping_add(base_pos, checked_abs_or_0(offset)))
    ELSE checked_sub(base_pos, checked_abs_or_0(wrapping_neg(offset)))

\* seek_from_start without the wrap into the window
seek_from_start_unwrapped(s, offset, checks) ==
    LET rel == offset
        sum == rel + s.start
    IN  IF checks /\ Overflows(sum)
        THEN [kind |-> "panic", val |-> 0, position |-> s.position]
        ELSE [kind |-> "ok", val |-> rel, position |-> Wrap(sum)]

\* SeekFrom::Start arm of seek
seek_from_start(s, offset, checks) ==
    LET rel == checked_rem_or(offset, len(s))
        sum == rel + s.start
    IN  IF checks /\ Overflows(sum)
        THEN [kind |-> "panic", val |-> 0, position |-> s.position]
        ELSE [kind |-> "ok", val |-> rel, position |-> Wrap(sum)]

\* seek without the early return for a window of length 0
seek_without_empty_check(s, style, offset, checks) ==
    IF checks /\ (rel_position_overflows(s) \/ len_overflows(s))
    THEN [kind |-> "panic", val |-> 0, position |-> s.position]
    ELSE IF style = "Start"
    THEN seek_from_start(s, offset, checks)
    ELSE LET base_pos == IF style = "End" THEN len(s) ELSE rel_position(s)
             new_pos == seek_new_pos(base_pos, offset)
         IN  IF new_pos.some
             THEN seek_store(s, new_pos.v, checks)
             ELSE [kind |-> "err", val |-> 0, position |-> s.position]

\* Seek::seek: style is "Start", "Current" or "End"; the outcome
\* (ok / err = InvalidInput / panic), the returned value and the new position
seek(s, style, offset, checks) ==
    IF checks /\ (rel_position_overflows(s) \/ len_overflows(s))
    THEN [kind |-> "panic", val |-> 0, position |-> s.position]
    ELSE IF len(s) = 0
    THEN [kind |-> "ok", val |-> 0, position |-> s.position]
    ELSE IF style = "Start"
    THEN seek_from_start(s, offset, checks)
    ELSE LET base_pos == IF style = "End" THEN len(s) ELSE rel_position(s)
             new_pos == seek_new_pos(base_pos, offset)
         IN  IF new_pos.some
             THEN seek_store(s, new_pos.v, checks)
             ELSE [kind |-> "err", val |-> 0, position |-> s.position]

\* calculate_available_bytes without the clip to the window's end
calculate_available_bytes_unclipped(buffer_length, e, p) == buffer_length

\* calculate_available_bytes
calculate_available_bytes(buffer_length, e, p) ==
    IF buffer_length > e - p THEN e - p ELSE buffer_length

\* ------------------------------------------------- the backing stream (T)
\* The backing stream behaves as std::io::Cursor<Vec<u8>> does (the stream of
\* the tests); in addition each of its calls may report an error (StreamFail).
Min(a, b) == IF a < b THEN a ELSE b
Max(a, b) == IF a > b THEN a ELSE b

\* cursor.by_ref().take(available).read(buf): the number of bytes delivered
stream_read_count(d, p, available) == Min(available, Max(0, Len(d) - p))

\* the bytes delivered by that read
stream_read_bytes(d, p, n) == [i \in 1 .. n |-> d[p + i]]

\* cursor.write(&buf[0..available]) of Cursor<Vec<u8>>: zero-fills up to the
\* cursor, then overwrites / extends
stream_write(d, p, bs) ==
    LET padded == IF p > Len(d) THEN d \o [i \in 1 .. (p - Len(d)) |-> 0] ELSE d
        newlen == Max(Len(padded), p + Len(bs))
    IN  [i \in 1 .. newlen |->
            IF i > p /\ i <= p + Len(bs) THEN bs[i - p] ELSE padded[i]]

\* ----------------------------------------------------------- bookkeeping
IdleLoc == [buflen |-> 0, buf |-> <<>>, available |-> 0, saved |-> None,
            result |-> 0, phys0 |-> 0]

NoCall == [op |-> "none", style |-> "", kind |-> "ok", val |-> 0]

\* the history of the backing stream's writes: the window whose call made the
\* last one (NoHolder before the first), the position that window stood at,
\* and the bytes handed to the stream.  A specification whose properties do
\* not refer to the history starts it as Untracked, and it stays so.
NoWrite == [by |-> NoHolder, at |-> 0, bytes |-> <<>>]
Untracked == [by |-> NoHolder, at |-> 0, bytes |-> <<0>>]
Wrote(w, p, bs) == [by |-> w, at |-> p, bytes |-> bs]
Record(w, p, bs) == IF written = Untracked THEN Untracked ELSE Wrote(w, p, bs)

\* what a call handed back to its caller: kind is "ok", "err" (an
\* io::Error) or "panic"; val is the Ok value of a seek (the byte count of a
\* read or write is loc[w].result at its return point)
Returned(op, style, kind, val) ==
    [op |-> op, style |-> style, kind |-> kind, val |-> val]

\* the program points of read and write at which the caller locks the mutex
ReadSteps == {"r_pos", "r_seek", "r_read", "r_restore"}
WriteSteps == {"w_pos", "w_seek", "w_write", "w_restore"}
LockSteps == ReadSteps \cup WriteSteps

Idle(w) == pc[w] = "idle"

\* SetWindow with the scalar fields kept in the shared handle: every window
\* of the stream takes the derived values
SetWindow_shared(w, s) ==
    /\ start' = [v \in Windows |-> s.start]
    /\ end' = [v \in Windows |-> s.end]
    /\ position' = [v \in Windows |-> s.position]
    /\ preserve' = [v \in Windows |-> s.preserve]

SetWindow(w, s) ==
    /\ start' = [start EXCEPT ![w] = s.start]
    /\ end' = [end EXCEPT ![w] = s.end]
    /\ position' = [position EXCEPT ![w] = s.position]
    /\ preserve' = [preserve EXCEPT ![w] = s.preserve]

\* ------------------------------------------------------------ derivations
\* dst = src.start(value)
DeriveStart(src, dst, value) ==
    /\ Idle(src) /\ Idle(dst)
    /\ SetWindow(dst, with_start(Window(src), value))
    /\ ret' = [ret EXCEPT ![dst] = Returned("start", "", "ok", 0)]
    /\ UNCHANGED <<stream, lock, pc, loc, calls, overflow_checks, written>>

\* dst = src.end(value)
DeriveEnd(src, dst, value) ==
    /\ Idle(src) /\ Idle(dst)
    /\ SetWindow(dst, with_end(Window(src), value))
    /\ ret' = [ret EXCEPT ![dst] = Returned("end", "", "ok", 0)]
    /\ UNCHANGED <<stream, lock, pc, loc, calls, overflow_checks, written>>

\* dst = src.preserve(value)
DerivePreserve(src, dst, value) ==
    /\ Idle(src) /\ Idle(dst)
    /\ SetWindow(dst, with_preserve(Window(src), value))
    /\ ret' = [ret EXCEPT ![dst] = Returned("preserve", "", "ok", 0)]
    /\ UNCHANGED <<stream, lock, pc, loc, calls, overflow_checks, written>>

\* dst = src.sub_cursor()
DeriveSub(src, dst) ==
    /\ Idle(src) /\ Idle(dst)
    /\ SetWindow(dst, sub_cursor(Window(src)))
    /\ ret' = [ret EXCEPT ![dst] = Returned("sub_cursor", "", "ok", 0)]
    /\ UNCHANGED <<stream, lock, pc, loc, calls, overflow_checks, written>>

\* ------------------------------------------------- set_position and seek
\* w.set_position(pos)
SetPosition(w, pos) ==
    LET r == set_position(Window(w), pos, overflow_checks)
    IN  /\ Idle(w)
        /\ position' = [position EXCEPT ![w] = r.position]
        /\ ret' = [ret EXCEPT ![w] = Returned("set_position", "", r.kind, 0)]
        /\ UNCHANGED <<start, end, preserve, stream, lock, pc, loc, calls,
                       overflow_checks, written>>

\* Seek moving the physical cursor along with the window's position
Seek_eager(w, style, offset) ==
    LET r == seek(Window(w), style, offset, overflow_checks)
    IN  /\ Idle(w)
        /\ position' = [position EXCEPT ![w] = r.position]
        /\ phys' = r.position
        /\ ret' = [ret EXCEPT ![w] = Returned("seek", style, r.kind, r.val)]
        /\ UNCHANGED <<start, end, preserve, data, lock, pc, loc, calls,
                       overflow_checks, written>>

\* w.seek(style(offset)): lazy, touches neither the mutex nor the stream
Seek(w, style, offset) ==
    LET r == seek(Window(w), style, offset, overflow_checks)
    IN  /\ Idle(w)
        /\ position' = [position EXCEPT ![w] = r.position]
        /\ ret' = [ret EXCEPT ![w] = Returned("seek", style, r.kind, r.val)]
        /\ UNCHANGED <<start, end, preserve, stream, lock, pc, loc, calls,
                       overflow_checks, written>>

\* ---------------------------------------------------------------- locking
\* self.cursor.lock().unwrap(): blocks until the mutex is free
Acquire(w) ==
    /\ pc[w] \in LockSteps
    /\ lock = NoHolder
    /\ lock' = w
    /\ UNCHANGED <<win, stream, pc, loc, ret, calls, overflow_checks, written>>

\* Step with the guard kept beyond the statement it was taken for
Step_keeping_guard(w, from, to) ==
    /\ pc[w] = from
    /\ lock = w
    /\ lock' = lock
    /\ pc' = [pc EXCEPT ![w] = to]

\* the call in flight on w leaves program point `from` for `to`, dropping
\* the guard it took for this step
Step(w, from, to) ==
    /\ pc[w] = from
    /\ lock = w
    /\ lock' = NoHolder
    /\ pc' = [pc EXCEPT ![w] = to]

OpOf(w) == IF pc[w] \in {"r_pos", "r_seek", "r_read", "r_restore", "r_ret"}
           THEN "read" ELSE "write"

\* StreamFail with the bytes already transferred added to the window's
\* position before the error is returned
StreamFail_advanced(w) ==
    /\ pc[w] \in LockSteps
    /\ lock = w
    /\ lock' = NoHolder
    /\ pc' = [pc EXCEPT ![w] = "idle"]
    /\ loc' = [loc EXCEPT ![w] = IdleLoc]
    /\ ret' = [ret EXCEPT ![w] = Returned(OpOf(w), "", "err", 0)]
    /\ position' = [position EXCEPT ![w] = position[w] + loc[w].result]
    /\ UNCHANGED <<start, end, preserve, stream, calls, overflow_checks,
                   written>>

\* a backing-stream call (stream_position, seek, read, write) reports an
\* error: `?` returns it to the caller and the guard is dropped
StreamFail(w) ==
    /\ pc[w] \in LockSteps
    /\ lock = w
    /\ lock' = NoHolder
    /\ pc' = [pc EXCEPT ![w] = "idle"]
    /\ loc' = [loc EXCEPT ![w] = IdleLoc]
    /\ ret' = [ret EXCEPT ![w] = Returned(OpOf(w), "", "err", 0)]
    /\ UNCHANGED <<win, stream, calls, overflow_checks, written>>

\* ------------------------------------------------------------------- read
\* w.read(buf) with buf.len() = n: the end-of-window check and
\* calculate_available_bytes
Read(w, n) ==
    /\ Idle(w)
    /\ calls[w] < MaxCalls
    /\ calls' = [calls EXCEPT ![w] = calls[w] + 1]
    /\ IF position[w] >= end[w]
       THEN /\ ret' = [ret EXCEPT ![w] = Returned("read", "", "ok", 0)]
            /\ UNCHANGED <<pc, loc>>
       ELSE /\ pc' = [pc EXCEPT ![w] = "r_pos"]
            /\ loc' = [loc EXCEPT ![w] =
                          [IdleLoc EXCEPT !.buflen = n,
                              !.available =
                                  calculate_available_bytes(n, end[w], position[w]),
                              !.phys0 = phys]]
            /\ ret' = [ret EXCEPT ![w] = NoCall]
    /\ UNCHANGED <<win, stream, lock, overflow_checks, written>>

\* let position = cursor.stream_position()?
ReadPos(w) ==
    /\ Step(w, "r_pos", "r_seek")
    /\ loc' = [loc EXCEPT ![w].saved = Some(phys)]
    /\ UNCHANGED <<win, stream, ret, calls, overflow_checks, written>>

\* cursor.seek(SeekFrom::Start(self.position))?
ReadSeek(w) ==
    /\ Step(w, "r_seek", "r_read")
    /\ phys' = position[w]
    /\ UNCHANGED <<win, data, loc, ret, calls, overflow_checks, written>>

\* let result = cursor.by_ref().take(available_bytes).read(buf)?
ReadRead(w) ==
    LET n == stream_read_count(data, phys, loc[w].available)
    IN  /\ Step(w, "r_read", IF preserve[w] THEN "r_restore" ELSE "r_ret")
        /\ phys' = phys + n
        /\ loc' = [loc EXCEPT ![w].result = n,
                              ![w].buf = stream_read_bytes(data, phys, n)]
        /\ UNCHANGED <<win, data, ret, calls, overflow_checks, written>>

\* ReadRestore without the seek back to the recorded position
ReadRestore_skipped(w) ==
    /\ Step(w, "r_restore", "r_ret")
    /\ UNCHANGED <<win, stream, loc, ret, calls, overflow_checks, written>>

\* if self.preserve { cursor.seek(SeekFrom::Start(position))? }
ReadRestore(w) ==
    /\ Step(w, "r_restore", "r_ret")
    /\ phys' = loc[w].saved.v
    /\ UNCHANGED <<win, data, loc, ret, calls, overflow_checks, written>>

\* read_advance with the window's position left where it was
read_advance_stale(p, result) == p

\* the position a read stores on return: self.position += result
read_advance(p, result) == p + result

\* self.position += result; Ok(result)
ReadRet(w) ==
    LET sum == read_advance(position[w], loc[w].result)
        panics == overflow_checks /\ Overflows(sum)
        newpos == IF panics THEN position[w] ELSE Wrap(sum)
    IN  /\ pc[w] = "r_ret"
        /\ pc' = [pc EXCEPT ![w] = "idle"]
        /\ position' = [position EXCEPT ![w] = newpos]
        /\ loc' = [loc EXCEPT ![w] = IdleLoc]
        /\ ret' = [ret EXCEPT ![w] = Returned("read", "", IF panics THEN "panic" ELSE "ok", 0)]
        /\ UNCHANGED <<start, end, preserve, stream, lock, calls, overflow_checks, written>>

\* ------------------------------------------------------------------ write
\* Write without the end-of-window check
Write_without_end_check(w, buf) ==
    /\ Idle(w)
    /\ calls[w] < MaxCalls
    /\ calls' = [calls EXCEPT ![w] = calls[w] + 1]
    /\ pc' = [pc EXCEPT ![w] = IF preserve[w] THEN "w_pos" ELSE "w_seek"]
    /\ loc' = [loc EXCEPT ![w] =
                  [IdleLoc EXCEPT !.buflen = Len(buf),
                      !.buf = buf,
                      !.available =
                          Max(0, calculate_available_bytes(Len(buf), end[w],
                                                           position[w])),
                      !.phys0 = phys]]
    /\ ret' = [ret EXCEPT ![w] = NoCall]
    /\ UNCHANGED <<win, stream, lock, overflow_checks, written>>

\* w.write(buf): the end-of-window check and calculate_available_bytes; the
\* physical position is recorded only when preserve is set
Write(w, buf) ==
    /\ Idle(w)
    /\ calls[w] < MaxCalls
    /\ calls' = [calls EXCEPT ![w] = calls[w] + 1]
    /\ IF position[w] >= end[w]
       THEN /\ ret' = [ret EXCEPT ![w] = Returned("write", "", "ok", 0)]
            /\ UNCHANGED <<pc, loc>>
       ELSE /\ pc' = [pc EXCEPT ![w] = IF preserve[w] THEN "w_pos" ELSE "w_seek"]
            /\ loc' = [loc EXCEPT ![w] =
                          [IdleLoc EXCEPT !.buflen = Len(buf),
                              !.buf = buf,
                              !.available =
                                  calculate_available_bytes(Len(buf), end[w],
                                                            position[w]),
                              !.phys0 = phys]]
            /\ ret' = [ret EXCEPT ![w] = NoCall]
    /\ UNCHANGED <<win, stream, lock, overflow_checks, written>>

\* Some(self.cursor.lock().unwrap().stream_position()?)
WritePos(w) ==
    /\ Step(w, "w_pos", "w_seek")
    /\ loc' = [loc EXCEPT ![w].saved = Some(phys)]
    /\ UNCHANGED <<win, stream, ret, calls, overflow_checks, written>>

\* cursor.seek(SeekFrom::Start(self.position))?
WriteSeek(w) ==
    /\ Step(w, "w_seek", "w_write")
    /\ phys' = position[w]
    /\ UNCHANGED <<win, data, loc, ret, calls, overflow_checks, written>>

\* let result = cursor.write(&buf[0..available_bytes])?
WriteWrite(w) ==
    LET slice == SubSeq(loc[w].buf, 1, loc[w].available)
    IN  /\ Step(w, "w_write", IF loc[w].saved.some THEN "w_restore" ELSE "w_ret")
        /\ data' = stream_write(data, phys, slice)
        /\ phys' = phys + Len(slice)
        /\ loc' = [loc EXCEPT ![w].result = Len(slice)]
        /\ written' = Record(w, position[w], slice)
        /\ UNCHANGED <<win, ret, calls, overflow_checks>>

\* if let Some(position) = position { cursor.seek(SeekFrom::Start(position))? }
WriteRestore(w) ==
    /\ Step(w, "w_restore", "w_ret")
    /\ phys' = loc[w].saved.v
    /\ UNCHANGED <<win, data, loc, ret, calls, overflow_checks, written>>

\* the position a write leaves in the window on return: write() never
\* assigns self.position
write_advance(p, result) == p

\* Ok(result)
WriteRet(w) ==
    LET newpos == write_advance(position[w], loc[w].result)
    IN  /\ pc[w] = "w_ret"
        /\ pc' = [pc EXCEPT ![w] = "idle"]
        /\ position' = [position EXCEPT ![w] = newpos]
        /\ loc' = [loc EXCEPT ![w] = IdleLoc]
        /\ ret' = [ret EXCEPT ![w] = Returned("write", "", "ok", 0)]
        /\ UNCHANGED <<start, end, preserve, stream, lock, calls, overflow_checks, written>>

\* ------------------------------------------------------------ the systems
\* The stream holds DataLen bytes, byte i at offset i as in the tests; every
\* window starts as SubCursor::from(stream) and is then reconfigured.
InitialData == [i \in 1 .. DataLen |-> (i - 1) % (MaxByte + 1)]

Buffers == UNION {[1 .. n -> Bytes] : n \in 0 .. MaxBuf}

\* SubCursor::from(stream).start(s).end(e).preserve(p), as the tests build
\* their windows: every window starts at its own start
Configured(s, e, p) ==
    with_preserve(with_end(with_start(from_stream(DataLen), s), e), p)

Bounds == {be \in Small \X Small : be[1] <= be[2]}
Configs == {Configured(be[1], be[2], p) : be \in Bounds, p \in BOOLEAN}

InitWith(cfg) ==
    /\ start = [w \in Windows |-> cfg[w].start]
    /\ end = [w \in Windows |-> cfg[w].end]
    /\ position = [w \in Windows |-> cfg[w].position]
    /\ preserve = [w \in Windows |-> cfg[w].preserve]
    /\ data = InitialData
    /\ lock = NoHolder
    /\ pc = [w \in Windows |-> "idle"]
    /\ loc = [w \in Windows |-> IdleLoc]
    /\ ret = [w \in Windows |-> NoCall]
    /\ calls = [w \in Windows |-> 0]
    /\ overflow_checks = TRUE

ReadCall(w, lens) ==
    \/ \E n \in lens : Read(w, n)
    \/ ReadPos(w)
    \/ ReadSeek(w)
    \/ ReadRead(w)
    \/ ReadRestore(w)
    \/ ReadRet(w)

WriteCall(w, bufs) ==
    \/ \E buf \in bufs : Write(w, buf)
    \/ WritePos(w)
    \/ WriteSeek(w)
    \/ WriteWrite(w)
    \/ WriteRestore(w)
    \/ WriteRet(w)

Locking(w) ==
    \/ Acquire(w)
    \/ StreamFail(w)

\* Spec: the windows of one stream used concurrently, read and write
\* interleaved step by step; window w is [w - 1, MaxEnd), callers pass
\* one-byte buffers, and the stream is a Cursor<Vec<u8>>, whose calls do not
\* fail
SharedConfigs ==
    {cfg \in [Windows -> Configs] :
        \A w \in Windows : cfg[w].start = w - 1 /\ cfg[w].end = MaxEnd}

Init ==
    /\ \E cfg \in SharedConfigs : InitWith(cfg)
    /\ phys = 0
    /\ written = NoWrite

Next ==
    \E w \in Windows :
        \/ ReadCall(w, {1})
        \/ WriteCall(w, {<<MaxByte>>})
        \/ Acquire(w)

Spec == Init /\ [][Next]_vars

\* SpecSeq: one window used on its own, whatever the physical cursor was
\* left at (the other windows are SubCursor::new() and stay unused); any
\* call of the backing stream may fail
TheWindow == CHOOSE w \in Windows : \A v \in Windows : w <= v

InitSeq ==
    /\ \E c \in Configs :
          InitWith([w \in Windows |-> IF w = TheWindow THEN c ELSE new])
    /\ phys \in 0 .. MaxEnd
    /\ written = Untracked

Offsets == (0 - MaxEnd) .. MaxEnd

NextSeq ==
    \/ \E off \in Small : Seek(TheWindow, "Start", off)
    \/ \E off \in Offsets : Seek(TheWindow, "Current", off)
    \/ \E off \in Offsets : Seek(TheWindow, "End", off)
    \/ ReadCall(TheWindow, 0 .. MaxBuf)
    \/ WriteCall(TheWindow, Buffers)
    \/ Locking(TheWindow)

SpecSeq == InitSeq /\ [][NextSeq]_vars

\* SpecSeek: the seek algebra of one window, bounds and offsets drawn from
\* the whole word range
NextSeek ==
    \/ \E v \in U : DeriveStart(TheWindow, TheWindow, v)
    \/ \E v \in U : DeriveEnd(TheWindow, TheWindow, v)
    \/ \E b \in BOOLEAN : DerivePreserve(TheWindow, TheWindow, b)
    \/ DeriveSub(TheWindow, TheWindow)
    \/ \E off \in U : Seek(TheWindow, "Start", off)
    \/ \E off \in I : Seek(TheWindow, "Current", off)
    \/ \E off \in I : Seek(TheWindow, "End", off)
    \/ \E pos \in U : SetPosition(TheWindow, pos)

\* SubCursor::new(): an empty window over an empty vector
InitSeek ==
    /\ start = [w \in Windows |-> new.start]
    /\ end = [w \in Windows |-> new.end]
    /\ position = [w \in Windows |-> new.position]
    /\ preserve = [w \in Windows |-> new.preserve]
    /\ phys = 0
    /\ data = <<>>
    /\ lock = NoHolder
    /\ pc = [w \in Windows |-> "idle"]
    /\ loc = [w \in Windows |-> IdleLoc]
    /\ ret = [w \in Windows |-> NoCall]
    /\ calls = [w \in Windows |-> 0]
    /\ overflow_checks \in BOOLEAN
    /\ written = Untracked

SpecSeek == InitSeek /\ [][NextSeek]_vars

\* SpecShare: a window and a window derived from it over one stream.  The
\* derived one is re-derived (from either), sought and repositioned at any
\* moment, also while the first one, which is sought and repositioned too,
\* is inside a read or a write.
TheDerived ==
    CHOOSE w \in Windows \ {TheWindow} : \A v \in Windows \ {TheWindow} : w <= v

Sharing == {TheWindow, TheDerived}

InitShare ==
    /\ \E p \in BOOLEAN :
          InitWith([w \in Windows |-> Configured(0, MaxEnd, p)])
    /\ phys = 0
    /\ written = Untracked

\* dst = src.start(v) / src.end(v) / src.preserve(b) / src.sub_cursor()
Derives(src, dst) ==
    \/ \E v \in {0, 1} : DeriveStart(src, dst, v)
    \/ \E v \in {MaxEnd} : DeriveEnd(src, dst, v)
    \/ \E b \in BOOLEAN : DerivePreserve(src, dst, b)
    \/ DeriveSub(src, dst)

\* w.seek(..) / w.set_position(..)
Moves(w) ==
    \/ \E off \in {0, 1} : Seek(w, "Start", off)
    \/ Seek(w, "Current", 0 - 1)
    \/ Seek(w, "End", 0)
    \/ SetPosition(w, 1)

NextShare ==
    \/ ReadCall(TheWindow, {1})
    \/ WriteCall(TheWindow, {<<MaxByte>>})
    \/ Acquire(TheWindow)
    \/ \E src \in Sharing : Derives(src, TheDerived)
    \/ \E w \in Sharing : Moves(w)

SpecShare == InitShare /\ [][NextShare]_vars

\* SpecFair: the windows of Sharing, each used by a thread of its own, read
\* and write one byte at a time through the one mutex; every call to the
\* backing stream may report an error.  The scheduler is fair to each
\* thread: a thread that can take its next step, or whose lock() finds the
\* mutex free for good, eventually runs.  Whether and when a caller begins
\* another call is left open.
InitFair ==
    /\ \E p \in BOOLEAN :
          InitWith([w \in Windows |-> Configured(0, MaxEnd, p)])
    /\ phys = 0
    /\ written = Untracked

\* the thread in the middle of a call on w executes its next statement, or
\* the statement's stream call fails and the call returns the error
Runs(w) ==
    \/ ReadPos(w)
    \/ ReadSeek(w)
    \/ ReadRead(w)
    \/ ReadRestore(w)
    \/ ReadRet(w)
    \/ WritePos(w)
    \/ WriteSeek(w)
    \/ WriteWrite(w)
    \/ WriteRestore(w)
    \/ WriteRet(w)
    \/ StreamFail(w)

\* the threads begin at most MaxCalls + 1 calls between them, and each at
\* most MaxCalls
CallsLeft == calls[TheWindow] + calls[TheDerived] <= MaxCalls

NextFair ==
    \E w \in Sharing :
        \/ CallsLeft /\ (Read(w, 1) \/ Write(w, <<MaxByte>>))
        \/ Runs(w)
        \/ Acquire(w)

Fairness == \A w \in Sharing : WF_vars(Acquire(w)) /\ WF_vars(Runs(w))

SpecFair == InitFair /\ [][NextFair]_vars /\ Fairness

\* ================================================================ claims
\* the window w as the step leaves it
WindowAfter(w) == [start |-> start'[w], end |-> end'[w],
                   position |-> position'[w], preserve |-> preserve'[w]]

\* len() and position() of s are computed without an overflow panic
Defined(s) ==
    ~(overflow_checks /\ (len_overflows(s) \/ rel_position_overflows(s)))

\* a call of the backing stream made on behalf of window w
BackingStep(w) ==
    \/ ReadPos(w) \/ ReadSeek(w) \/ ReadRead(w) \/ ReadRestore(w)
    \/ WritePos(w) \/ WriteSeek(w) \/ WriteWrite(w) \/ WriteRestore(w)

\* w has moved the physical cursor to its own position and has a transfer
\* or a restore still to make
AfterPhysicalSeek(w) == pc[w] \in {"r_read", "r_restore", "w_write", "w_restore"}

\* C1: while a window is between its physical seek and its transfer, or
\* between its transfer and its restore, no other window's call reaches the
\* backing stream (the window holds exclusive access for the whole of
\* seek + transfer + restore).
C1_ExclusiveAccess ==
    [][\A w \in Windows : \A v \in Windows \ {w} :
          AfterPhysicalSeek(w) => ~BackingStep(v)]_vars

\* C2: a write that returns having transferred n bytes leaves the window's
\* position advanced by exactly n.
C2_WriteAdvances ==
    [][\A w \in Windows :
          WriteRet(w) => position'[w] = position[w] + loc[w].result]_vars

\* C3: a read that returns having transferred n bytes, n being the count the
\* backing stream delivered (the distance its cursor moved), leaves the
\* window's position advanced by exactly n.
C3_ReadAdvances ==
    [][\A w \in Windows :
          /\ ReadRead(w) => loc'[w].result = phys' - phys
          /\ ReadRet(w) => /\ ret'[w].kind = "ok"
                           /\ position'[w] = position[w] + loc[w].result
                           /\ rel_position(WindowAfter(w))
                                = rel_position(Window(w)) + loc[w].result]_vars

\* a read past the end of the stream's data has returned: the window reaches
\* beyond the only byte the stream holds, and the read advanced it by one
C3_Witness ==
    /\ Idle(TheWindow)
    /\ ret[TheWindow] = Returned("read", "", "ok", 0)
    /\ calls[TheWindow] = 1
    /\ Len(data) = 1
    /\ start[TheWindow] = 0
    /\ end[TheWindow] = MaxEnd
    /\ position[TheWindow] = 1

\* the call in flight on w has made its transfer
Transferred(w) == pc[w] \in {"r_restore", "r_ret", "w_restore", "w_ret"}

\* C4: a read or write transfers at most end - position bytes and at most
\* the caller's buffer length; a write of a buffer longer than what is left
\* of the window writes exactly what is left.
C4_TransferClipped ==
    \A w \in Windows :
        Transferred(w) =>
            /\ start[w] <= position[w]
            /\ loc[w].result <= end[w] - position[w]
            /\ loc[w].result <= loc[w].buflen
            /\ (pc[w] \in {"w_restore", "w_ret"}
                /\ loc[w].buflen >= end[w] - position[w])
                   => loc[w].result = end[w] - position[w]

\* a two-byte write issued one byte before the window's end has written one
C4_Witness ==
    /\ pc[TheWindow] = "w_ret"
    /\ loc[TheWindow].buflen = 2
    /\ end[TheWindow] - position[TheWindow] = 1
    /\ loc[TheWindow].result = 1

\* a read or write on w returns Ok in this step
ReturnsOk(w) ==
    \/ ReadRet(w) /\ ret'[w].kind = "ok"
    \/ WriteRet(w)
    \/ /\ Idle(w) /\ Idle(w)' /\ calls'[w] # calls[w]
       /\ \/ \E n \in 0 .. MaxBuf : Read(w, n)
          \/ \E buf \in Buffers : Write(w, buf)

\* the physical position the call on w found when it began
PhysAtEntry(w) == IF Idle(w) THEN phys ELSE loc[w].phys0

\* C5: with preserve set and no other window operating, a read or write that
\* returns Ok leaves the physical cursor where it was when the call began.
C5_PreserveRestores ==
    [][\A w \in Windows :
          (preserve[w] /\ ReturnsOk(w)) => phys' = PhysAtEntry(w)]_vars

\* a preserving window has read a byte at its own position while the physical
\* cursor stood, and stands again, somewhere else
C5_Witness ==
    /\ Idle(TheWindow)
    /\ preserve[TheWindow]
    /\ ret[TheWindow] = Returned("read", "", "ok", 0)
    /\ position[TheWindow] = start[TheWindow] + 1
    /\ phys = MaxEnd
    /\ phys # position[TheWindow]

\* C6: with preserve set, a read or write that fails at a backing-stream
\* step leaves the physical cursor where it was when the call began.
C6_PreserveOnError ==
    [][\A w \in Windows :
          (preserve[w] /\ StreamFail(w)) => phys' = loc[w].phys0]_vars

\* C7: when every window preserves, once all their reads and writes have
\* returned the physical cursor is where it was before the first of them
\* began (Spec starts it at 0, and its stream never fails).
C7_AllPreserveRestores ==
    ((\A w \in Windows : preserve[w]) /\ (\A w \in Windows : Idle(w)))
        => phys = 0

\* C8: with preserve unset, a read or write that has reached the backing
\* stream and returns Ok leaves the physical cursor at the window's new
\* absolute position, start + relative position.
C8_PhysicalFollowsWindow ==
    [][\A w \in Windows :
          (~preserve[w] /\ (ReadRet(w) \/ WriteRet(w)))
              => /\ phys' = position'[w]
                 /\ phys' = start'[w] + rel_position(WindowAfter(w))]_vars

\* C9: on a window with length() > 0, SeekFrom::Start(offset) succeeds,
\* returns offset mod length(), and relative_position() then reports that
\* value (the absolute position being start + that value).
C9_SeekFromStart ==
    [][\A off \in U :
          LET s == Window(TheWindow)
          IN  (Seek(TheWindow, "Start", off) /\ Defined(s) /\ len(s) > 0)
                 => /\ ret'[TheWindow] = Returned("seek", "Start", "ok", off % len(s))
                    /\ rel_position(WindowAfter(TheWindow)) = off % len(s)
                    /\ position'[TheWindow] = Wrap(s.start + (off % len(s)))
                    /\ (s.start <= s.end
                          => position'[TheWindow] = s.start + (off % len(s)))]_vars

\* a seek from the start of the window [2, 5) has wrapped into it: the
\* window stands at relative position 2, absolute 4
C9_Witness ==
    /\ ret[TheWindow] = Returned("seek", "Start", "ok", 2)
    /\ start[TheWindow] = 2
    /\ end[TheWindow] = 5
    /\ position[TheWindow] = 4

\* the value C10 expects of a seek to target t on a window of length n
KeptOrWrapped(t, n) == IF t <= n THEN t ELSE t % n

\* C10: on a window with length() > 0, SeekFrom::Current(off) and
\* SeekFrom::End(off) whose target t = base + off is non-negative return t
\* when t <= length() and t mod length() when t > length(), and set
\* position = start + that value.
C10_SeekRelative ==
    [][\A style \in {"Current", "End"} : \A off \in I :
          LET s == Window(TheWindow)
              base == IF style = "End" THEN len(s) ELSE rel_position(s)
              t == base + off
          IN  (Seek(TheWindow, style, off) /\ Defined(s) /\ s.start <= s.end
                 /\ len(s) > 0 /\ t >= 0)
                 => /\ ret'[TheWindow]
                         = Returned("seek", style, "ok", KeptOrWrapped(t, len(s)))
                    /\ position'[TheWindow]
                         = s.start + KeptOrWrapped(t, len(s))]_vars

\* the base a relative seek of the given style starts from
SeekBase(s, style) == IF style = "End" THEN len(s) ELSE rel_position(s)

\* C11: SeekFrom::Current(off) and SeekFrom::End(off) with off negative and
\* of a magnitude above the base (the relative position, resp. length()) fail
\* with the InvalidInput error; they never succeed with a clamped or zero
\* result.  Stated for the windows of length() > 0: on a zero-length window
\* seek returns Ok(0) before it looks at the offset (C12).
C11_InvalidSeek ==
    [][\A style \in {"Current", "End"} : \A off \in I :
          LET s == Window(TheWindow)
          IN  (Seek(TheWindow, style, off) /\ Defined(s) /\ s.start <= s.end
                 /\ len(s) > 0 /\ off < 0 /\ 0 - off > SeekBase(s, style))
                 => ret'[TheWindow].kind = "err"]_vars

\* C12: on a window of length() = 0 a seek of any kind and any offset
\* succeeds, returns 0 and leaves the window's position (and bounds) as they
\* were.
C12_ZeroLengthSeek ==
    [][LET s == Window(TheWindow)
       IN  len(s) = 0 =>
              \A style \in {"Start", "Current", "End"} : \A off \in U \cup I :
                  Seek(TheWindow, style, off)
                     => /\ ret'[TheWindow] = Returned("seek", style, "ok", 0)
                        /\ WindowAfter(TheWindow) = s]_vars

\* the empty window [2, 2), moved off its start by set_position, has been
\* sought from its end and stands where it stood
C12_Witness ==
    /\ start[TheWindow] = 2
    /\ end[TheWindow] = 2
    /\ position[TheWindow] = 4
    /\ ret[TheWindow] = Returned("seek", "End", "ok", 0)

\* window w seeks in this step
Seeks(w) ==
    \E style \in {"Start", "Current", "End"} : \E off \in U \cup I :
        Seek(w, style, off)

\* C13: a seek of any kind, returning Ok or Err, takes no lock (it is taken
\* while another window holds the mutex, which stays with its holder) and
\* leaves the physical cursor and the stream's bytes as they were: a step
\* that changes any of the three is no seek.  The physical cursor and the
\* bytes change only in a step of a read or a write on the backing stream.
C13_SeekIsLazy ==
    [][/\ \A w \in Windows :
             (phys' = phys /\ data' = data /\ lock' = lock) \/ ~Seeks(w)
       /\ (phys' = phys /\ data' = data) \/ \E w \in Windows : BackingStep(w)]_vars

\* a seek on one window has failed while the first window, inside a read,
\* holds the mutex and has moved the physical cursor to its own position
C13_Witness ==
    /\ ret[TheDerived] = Returned("seek", "Current", "err", 0)
    /\ lock = TheWindow
    /\ pc[TheWindow] = "r_read"
    /\ phys = 1

\* the call that begins in this step returns Ok(0) at once, having touched
\* neither the window nor the stream
NothingTransferred(w, op) ==
    /\ Idle(w)'
    /\ ret'[w] = Returned(op, "", "ok", 0)
    /\ loc'[w].result = 0
    /\ WindowAfter(w) = Window(w)
    /\ UNCHANGED <<phys, data, lock>>

\* C14: a read or a write on a window whose position >= end (the end of the
\* window, or a zero-length window) returns Ok with 0 bytes transferred and
\* leaves the window's position, the physical cursor and the stream's bytes
\* unchanged.  (Every step in which a call begins counts the call.)
C14_EndOfWindow ==
    [][\A w \in Windows :
          (position[w] >= end[w] /\ calls'[w] # calls[w]) =>
              /\ NothingTransferred(w, "read")
                    \/ ~\E n \in 0 .. MaxBuf : Read(w, n)
              /\ NothingTransferred(w, "write")
                    \/ ~\E buf \in Buffers : Write(w, buf)]_vars

\* after a seek to the end of a non-empty window, a write, the window's only
\* call so far, has returned with the stream's bytes as they were
C14_Witness ==
    /\ start[TheWindow] < end[TheWindow]
    /\ position[TheWindow] = end[TheWindow]
    /\ ret[TheWindow] = Returned("write", "", "ok", 0)
    /\ calls[TheWindow] = 1
    /\ data = InitialData

\* the read in flight on w has made its transfer
ReadTransferred(w) == pc[w] \in {"r_restore", "r_ret"}

\* no call of a write is in flight on a window other than w
NoOtherWriter(w) ==
    \A v \in Windows \ {w} : pc[v] \notin WriteSteps \cup {"w_ret"}

\* C15: round trip.  When a window has written bytes at its position p, no
\* other window has written since or is writing, and the window then reads
\* as many bytes at position p again, the read delivers exactly the bytes
\* written; for preserve set and unset.
C15_RoundTrip ==
    \A w \in Windows :
        (/\ ReadTransferred(w)
         /\ written.by = w
         /\ NoOtherWriter(w)
         /\ written.at = position[w]
         /\ Len(written.bytes) = loc[w].buflen
         /\ start[w] <= position[w]
         /\ position[w] + loc[w].buflen <= end[w])
            => loc[w].buf = written.bytes

\* C16: SeekFrom::Current(0) is idempotent in every window state: it
\* succeeds, returns the value position() had before the call and leaves
\* position() unchanged.
C16_SeekCurrentZero ==
    [][LET s == Window(TheWindow)
       IN  (Seek(TheWindow, "Current", 0) /\ Defined(s) /\ s.start <= s.end)
              => /\ ret'[TheWindow]
                      = Returned("seek", "Current", "ok", rel_position(s))
                 /\ rel_position(WindowAfter(TheWindow)) = rel_position(s)]_vars

\* C17: deriving a window from a window in any state: start(v) yields
\* start = v and position = v; end(v) yields end = v and position = the
\* unchanged start; sub_cursor() yields the same bounds and preserve flag
\* with position = start; preserve(f) yields preserve = f with start, end and
\* position those of the source, also when the source is not at its start.
\* What a derivation does not set it takes over from the source.
C17_Derivations ==
    [][LET s == Window(TheWindow)
           d == WindowAfter(TheWindow)
       IN  /\ \A v \in U :
                 DeriveStart(TheWindow, TheWindow, v)
                    => d = [start |-> v, end |-> s.end, position |-> v,
                            preserve |-> s.preserve]
           /\ \A v \in U :
                 DeriveEnd(TheWindow, TheWindow, v)
                    => d = [start |-> s.start, end |-> v, position |-> s.start,
                            preserve |-> s.preserve]
           /\ DeriveSub(TheWindow, TheWindow)
                 => d = [start |-> s.start, end |-> s.end, position |-> s.start,
                         preserve |-> s.preserve]
           /\ \A f \in BOOLEAN :
                 DerivePreserve(TheWindow, TheWindow, f)
                    => d = [start |-> s.start, end |-> s.end,
                            position |-> s.position, preserve |-> f]]_vars

\* preserve(true) has been derived from the window [1, 4) standing at
\* relative position 2: the derived window stands there too
C17_Witness ==
    /\ ret[TheWindow] = Returned("preserve", "", "ok", 0)
    /\ preserve[TheWindow]
    /\ start[TheWindow] = 1
    /\ end[TheWindow] = 4
    /\ position[TheWindow] = 3

\* an operation is performed on window w in this step: w is derived from
\* some window, sought, repositioned, or a read or write on w takes a step
OperationOn(w) ==
    \/ \E src \in Sharing : Derives(src, w)
    \/ Moves(w)
    \/ ReadCall(w, {1})
    \/ WriteCall(w, {<<MaxByte>>})

\* C18: the windows of one stream have independent scalar state: a
\* derivation, seek, set_position, read or write on one window changes the
\* start, end, position and preserve flag of no other window, the window it
\* was derived from included, whatever the others are in the middle of.
C18_IndependentWindows ==
    [][\A w \in Windows :
          (\A v \in Windows \ {w} : WindowAfter(v) = Window(v))
              \/ ~OperationOn(w)]_vars

\* a window has been derived with start(1) and stands at 1 while the first
\* window, still [0, MaxEnd) at position 0, is in the middle of a read
C18_Witness ==
    /\ pc[TheWindow] = "r_read"
    /\ Window(TheWindow) = Configured(0, MaxEnd, FALSE)
    /\ ret[TheDerived] = Returned("start", "", "ok", 0)
    /\ start[TheDerived] = 1
    /\ position[TheDerived] = 1

\* C19: in every state reached by construction, derivation, set_position,
\* seek, read and write each window has start <= position, so that
\* position() = position - start does not underflow.  Stated for the windows
\* whose bounds are in order (start <= end).
C19_StartBelowPosition ==
    \A w \in Windows : start[w] <= end[w] => start[w] <= position[w]

\* C20: on a window with length() > 0, set_position(pos) makes position()
\* equal pos when pos < length() and pos mod length() when pos >= length(),
\* the absolute position being start + that value; the bounds, the preserve
\* flag and the backing stream are left as they were.
C20_SetPosition ==
    [][\A pos \in U :
          LET s == Window(TheWindow)
              d == WindowAfter(TheWindow)
              rel == IF pos < len(s) THEN pos ELSE pos % len(s)
          IN  (SetPosition(TheWindow, pos) /\ Defined(s) /\ len(s) > 0)
                 => /\ ret'[TheWindow].kind = "ok"
                    /\ rel_position(d) = rel
                    /\ d.position = Wrap(s.start + rel)
                    /\ (s.start <= s.end => d.position = s.start + rel)
                    /\ d.start = s.start /\ d.end = s.end
                    /\ d.preserve = s.preserve
                    /\ UNCHANGED <<phys, data, lock>>]_vars

\* set_position has placed the window [1, 4) at relative position 1,
\* absolute 2 (pos = 1, 4 or 7)
C20_Witness ==
    /\ ret[TheWindow] = Returned("set_position", "", "ok", 0)
    /\ start[TheWindow] = 1
    /\ end[TheWindow] = 4
    /\ position[TheWindow] = 2

\* C21: SeekFrom::Current and SeekFrom::End with the most negative offset of
\* the word (IMin = -2^(Bits-1)) on a window with length() > 0 whose base
\* (position(), resp. length()) is below 2^(Bits-1) fail with the
\* InvalidInput error: they do not succeed with the position left at the
\* base.
C21_MostNegativeOffset ==
    [][\A style \in {"Current", "End"} :
          LET s == Window(TheWindow)
          IN  (Seek(TheWindow, style, IMin) /\ Defined(s) /\ s.start <= s.end
                 /\ len(s) > 0 /\ SeekBase(s, style) < 0 - IMin)
                 => /\ ret'[TheWindow].kind = "err"
                    /\ ret'[TheWindow]
                          # Returned("seek", style, "ok", SeekBase(s, style))]_vars

\* the content of the stream d at absolute offset i; offsets past the end
\* of the stream hold no data and count as zero, which is what the stream
\* fills a gap with when it is written past its end
ByteAt(d, i) == IF i < Len(d) THEN d[i + 1] ELSE 0

\* the step changed the content of the backing stream at absolute offset i
ByteChanged(i) == ByteAt(data', i) # ByteAt(data, i)

\* C22: a write through a window changes bytes of the backing stream only
\* at absolute offsets inside the window's [start, end), whatever reads and
\* writes of other windows it is interleaved with.
C22_WritesInsideWindow ==
    [][\A w \in Windows :
          WriteWrite(w) =>
              \A i \in 0 .. (Len(data') - 1) :
                  ByteChanged(i) => (start[w] <= i /\ i < end[w])]_vars

\* no write has reached the stream and none is in flight on another window:
\* the calls that have run beside the one on w are reads
OnlyReadsBeside(w) ==
    /\ written = NoWrite
    /\ data = InitialData
    /\ NoOtherWriter(w)

\* C23: a read through a window standing at absolute position p that
\* transfers n > 0 bytes delivers exactly the bytes of the backing stream at
\* the absolute offsets [p, p + n), also when reads through other windows of
\* the same stream run concurrently with it.
C23_ReadDeliversWindowBytes ==
    \A w \in Windows :
        (ReadTransferred(w) /\ loc[w].result > 0 /\ OnlyReadsBeside(w))
            => /\ position[w] + loc[w].result <= Len(data)
               /\ loc[w].buf
                     = stream_read_bytes(data, position[w], loc[w].result)

\* C24: a window whose bounds satisfy start <= end has position <= end
\* (relative_position() <= length()) in every state that set_position and
\* seek lead to, zero-length windows included.
C24_PositionWithinWindow ==
    LET s == Window(TheWindow)
    IN  s.start <= s.end => s.position <= s.end

\* a seek is performed on window w in this step
SeekStep(w) ==
    \/ \E off \in U : Seek(w, "Start", off)
    \/ \E style \in {"Current", "End"} : \E off \in I : Seek(w, style, off)

\* C25: in every window state, a zero-length window moved by set_position
\* included, the value a successful seek returns is the value position()
\* reports right after that seek.
C25_SeekReturnsPosition ==
    [][(\/ ret'[TheWindow].kind # "ok"
        \/ ~Defined(WindowAfter(TheWindow))
        \/ ret'[TheWindow].val = rel_position(WindowAfter(TheWindow)))
          \/ ~SeekStep(TheWindow)]_vars

\* C26: a failing operation leaves the window's own state untouched: after
\* a seek that returns the InvalidInput error, and after a read or a write
\* to which the backing stream reported an error at any of its steps, the
\* window's start, end, position and preserve flag are what they were
\* before the step that returned the error.
C26_FailureLeavesWindow ==
    [][\/ WindowAfter(TheWindow) = Window(TheWindow)
       \/ ret'[TheWindow].kind # "err"
       \/ ~(SeekStep(TheWindow) \/ StreamFail(TheWindow))]_vars

\* a write, the window's only call, has changed the stream's bytes and then
\* failed in restoring the physical cursor; the window still stands at its
\* start
C26_Witness ==
    /\ ret[TheWindow] = Returned("write", "", "err", 0)
    /\ calls[TheWindow] = 1
    /\ preserve[TheWindow]
    /\ data # InitialData
    /\ start[TheWindow] < end[TheWindow]
    /\ position[TheWindow] = start[TheWindow]

\* C27: reads and writes do not deadlock.  With the windows of one stream
\* used by concurrent threads under a fair scheduler, every read and every
\* write that has begun eventually returns, with a result or with the
\* stream's error: no thread asks for the mutex while holding it, and the
\* guard is dropped after every statement and on every error path.
C27_NoDeadlock ==
    \A w \in Sharing : (~Idle(w)) ~> Idle(w)

\* the second window, in the middle of a call, waits for the mutex while the
\* first window holds it for the restore step of a read
C27_Witness ==
    /\ lock = TheWindow
    /\ pc[TheWindow] = "r_restore"
    /\ pc[TheDerived] \in LockSteps

====
